---- MODULE Spec2Model ----
(***************************************************************************)
(* Medi-Friend backend (src/main.py): sessions, password reset and the     *)
(* per-medication taken/snooze state, over a document store with the       *)
(* collections user, session and medication.                               *)
(*                                                                         *)
(* Every request handler is a sequence of steps, one per store call; the   *)
(* steps of different requests interleave, and the clock may advance       *)
(* between any two steps.  Time is counted in minutes.                     *)
(***************************************************************************)
EXTENDS Integers, Sequences, FiniteSets, TLC

VARIABLES
    users,      \* db["user"]: sequence of documents, _id = position
    sessions,   \* db["session"]: set of documents
    meds,       \* db["medication"]: set of documents
    clock,      \* the value utc_now() returns, in minutes
    ticks,      \* how many times the clock has advanced
    nextToken,  \* number of session tokens drawn from secrets.token_urlsafe(32)
    nextReset,  \* number of reset tokens drawn from secrets.token_urlsafe(8)
    nextMed,    \* number of medication _ids allotted by the store
    consumed,   \* history: <<user _id, reset token>> pairs a reset has succeeded with
    proc        \* per request slot: position, request, locals, response

vars == <<users, sessions, meds, clock, ticks, nextToken, nextReset, nextMed, consumed, proc>>

-----------------------------------------------------------------------------
(* Bounds of the model *)

MaxUsers == 2
MaxSessions == 2
MaxResetTokens == 2
MaxMeds == 1
MaxTicks == 2

(* Program constants, in minutes *)

SESSION_TTL == 10080
RESET_TTL == 60
SNOOZE_DELTA == 10

SALT == "medi-friend-demo-salt"

None == -1

-----------------------------------------------------------------------------
(* Inputs *)

Procs == {"r1", "r2"}
Names == {"Alice"}
Emails == {"a@x.com", "b@x.com"}
Passwords == {"pw1", "pw2"}

\* bearer tokens a caller may present: 0 stands for a missing or malformed header
BearerTokens == 0..MaxSessions
ResetTokenInputs == 1..MaxResetTokens
\* an id not yet allotted, or deleted, is an id that does not exist
MedIds == 1..MaxMeds

NoNotes == "<None>"

MedicationInputs ==
    { [name |-> "Aspirin", dosage |-> "1 tablet",
       time_12h |-> <<"8", ":", "0", "5", " ", "p", "m">>,
       frequency |-> "daily", notes |-> NoNotes],
      [name |-> "Ibuprofen", dosage |-> "2ml",
       time_12h |-> <<"9", ":", "3", "0", " ", "A", "M">>,
       frequency |-> "hourly", notes |-> "with food"] }

SettingsInputs ==
    { [given |-> FALSE, notifications_enabled |-> FALSE],
      [given |-> TRUE, notifications_enabled |-> FALSE],
      [given |-> TRUE, notifications_enabled |-> TRUE] }

-----------------------------------------------------------------------------
(* Helpers *)

hash_password(password) == [sha256 |-> <<password, SALT>>]

utc_now == clock

\* str.upper() on a string held as a sequence of characters
UpperChar(c) ==
    CASE c = "a" -> "A"
      [] c = "p" -> "P"
      [] c = "m" -> "M"
      [] OTHER -> c

Upper(s) == [i \in 1..Len(s) |-> UpperChar(s[i])]

\* db["user"].find_one({"email": email}): _id of the first match, 0 if none
get_user_by_email(email) ==
    IF \E i \in 1..Len(users) : users[i].email = email
    THEN CHOOSE i \in 1..Len(users) :
            /\ users[i].email = email
            /\ \A j \in 1..(i - 1) : users[j].email # email
    ELSE 0

\* db["session"].find_one({"token": token})
FindSession(token) == {s \in sessions : s.token = token}

\* FindMed gone wrong: the filter without the owner
FindMedAnyOwner(med_id, user_id) == {m \in meds : m._id = med_id}

\* db["medication"].find_one({"_id": med_id, "user_id": user_id})
FindMed(med_id, user_id) == {m \in meds : m._id = med_id /\ m.user_id = user_id}

NoPrincipal == [_id |-> 0, name |-> "", email |-> "", notifications_enabled |-> FALSE]

Principal(uid) ==
    [_id |-> uid, name |-> users[uid].name, email |-> users[uid].email,
     notifications_enabled |-> users[uid].notifications_enabled]

NoLocals == [user |-> NoPrincipal, found |-> 0, created_at |-> None]

NoResponse == [status |-> 0, detail |-> ""]

IdleProc == [pc |-> "idle", req |-> [op |-> "none"], loc |-> NoLocals, resp |-> NoResponse]

Free(p) == proc[p].pc \in {"idle", "done"}

\* a request being answered; the slot keeps the locals the handler ended with
Reply(p, req, resp) ==
    proc' = [proc EXCEPT ![p] =
                [pc |-> "done", req |-> req,
                 loc |-> IF Free(p) THEN NoLocals ELSE proc[p].loc,
                 resp |-> resp]]

HTTPException(status_code, detail) == [status |-> status_code, detail |-> detail]

Goto(p, label, req, loc) ==
    proc' = [proc EXCEPT ![p] = [pc |-> label, req |-> req, loc |-> loc, resp |-> NoResponse]]

-----------------------------------------------------------------------------
Init ==
    /\ users = <<>>
    /\ sessions = {}
    /\ meds = {}
    /\ clock = 0
    /\ ticks = 0
    /\ nextToken = 0
    /\ nextReset = 0
    /\ nextMed = 0
    /\ consumed = {}
    /\ proc = [p \in Procs |-> IdleProc]

\* the clock advances by d minutes
Tick(d) ==
    /\ ticks < MaxTicks
    /\ clock' = clock + d
    /\ ticks' = ticks + 1
    /\ UNCHANGED <<users, sessions, meds, nextToken, nextReset, nextMed, consumed, proc>>

-----------------------------------------------------------------------------
(* Auth dependency *)

\* line 110: the expiry test of get_current_user
SessionExpired(sess, now) == sess.expires_at # None /\ sess.expires_at < now

\* the detail get_current_user ends with for a bearer token, "" when it returns the user
AuthDetail(token) ==
    IF token = 0 THEN "Missing token"
    ELSE IF FindSession(token) = {} THEN "Invalid token"
    ELSE LET sess == CHOOSE s \in FindSession(token) : TRUE
         IN  IF sess.user_id \notin 1..Len(users) THEN "User not found"
             ELSE IF SessionExpired(sess, utc_now) THEN "Session expired"
             ELSE ""

\* the session collection after get_current_user: an expired session is deleted by _id
AuthSessions(token) ==
    IF AuthDetail(token) = "Session expired"
    THEN LET sess == CHOOSE s \in FindSession(token) : TRUE
         IN  {s \in sessions : s._id # sess._id}
    ELSE sessions

AuthUser(token) ==
    LET sess == CHOOSE s \in FindSession(token) : TRUE IN Principal(sess.user_id)

\* Depends(get_current_user) of a route: 401, or on to the route's body at `label`
get_current_user(p, req, label) ==
    /\ Free(p)
    /\ sessions' = AuthSessions(req.token)
    /\ IF AuthDetail(req.token) # ""
       THEN Reply(p, req, HTTPException(401, AuthDetail(req.token)))
       ELSE Goto(p, label, req, [NoLocals EXCEPT !.user = AuthUser(req.token)])

-----------------------------------------------------------------------------
(* Sessions *)

\* the document signup and login insert into db["session"]
NewSession(user_id, token, created_at, now) ==
    [_id |-> token, user_id |-> user_id, token |-> token,
     created_at |-> created_at, expires_at |-> now + SESSION_TTL]

\* InsertSession gone wrong: the new session replaces the user's other sessions
InsertSessionReplacing(doc) == {s \in sessions : s.user_id # doc.user_id} \cup {doc}

\* db["session"].insert_one(doc)
InsertSession(doc) == sessions \cup {doc}

SessionsInFlight ==
    Cardinality({q \in Procs : proc[q].pc \in
        {"signup_insert_user", "signup_created_at", "signup_insert_session",
         "login_created_at", "login_insert_session"}})

UsersInFlight == Cardinality({q \in Procs : proc[q].pc = "signup_insert_user"})

TokenOut(token, user) ==
    [status |-> 200, detail |-> "", token |-> token, name |-> user.name,
     email |-> user.email, notifications_enabled |-> user.notifications_enabled]

\* POST /auth/signup, up to the duplicate check
signup(p) ==
    /\ Free(p)
    /\ \E name \in Names, email \in Emails, password \in Passwords :
         LET req == [op |-> "signup", name |-> name, email |-> email, password |-> password]
         IN  IF get_user_by_email(email) # 0
             THEN Reply(p, req, HTTPException(400, "Email already registered"))
             ELSE /\ Len(users) + UsersInFlight < MaxUsers
                  /\ nextToken + SessionsInFlight < MaxSessions
                  /\ Goto(p, "signup_insert_user", req, NoLocals)
    /\ UNCHANGED <<users, sessions, meds, clock, ticks, nextToken, nextReset, nextMed, consumed>>

UserDoc(req) ==
    [name |-> req.name, email |-> req.email,
     password_hash |-> hash_password(req.password),
     notifications_enabled |-> TRUE,
     reset_token |-> None, reset_token_expires |-> None]

\* line 135: db["user"].insert_one(user_doc)
signup_insert_user(p) ==
    /\ proc[p].pc = "signup_insert_user"
    /\ users' = Append(users, UserDoc(proc[p].req))
    /\ Goto(p, "signup_created_at", proc[p].req, [proc[p].loc EXCEPT !.found = Len(users) + 1])
    /\ UNCHANGED <<sessions, meds, clock, ticks, nextToken, nextReset, nextMed, consumed>>

\* line 140: "created_at": utc_now()
signup_created_at(p) ==
    /\ proc[p].pc = "signup_created_at"
    /\ Goto(p, "signup_insert_session", proc[p].req, [proc[p].loc EXCEPT !.created_at = utc_now])
    /\ UNCHANGED <<users, sessions, meds, clock, ticks, nextToken, nextReset, nextMed, consumed>>

\* lines 137-143: "expires_at": utc_now() + 7 days, insert, answer
signup_insert_session(p) ==
    /\ proc[p].pc = "signup_insert_session"
    /\ nextToken' = nextToken + 1
    /\ sessions' = InsertSession(
          NewSession(proc[p].loc.found, nextToken + 1, proc[p].loc.created_at, utc_now))
    /\ Reply(p, proc[p].req,
             TokenOut(nextToken + 1,
                      [name |-> proc[p].req.name, email |-> proc[p].req.email,
                       notifications_enabled |-> TRUE]))
    /\ UNCHANGED <<users, meds, clock, ticks, nextReset, nextMed, consumed>>

\* InvalidCredentials gone wrong: only the email is looked at
InvalidCredentialsEmailOnly(uid, password) == uid = 0

\* InvalidCredentials gone wrong: the stored digest compared with an unsalted one
InvalidCredentialsUnhashed(uid, password) ==
    uid = 0 \/ users[uid].password_hash # [sha256 |-> <<password>>]

\* line 150: the credential test of login, on the _id get_user_by_email found
InvalidCredentials(uid, password) ==
    uid = 0 \/ users[uid].password_hash # hash_password(password)

\* POST /auth/login, up to the credential check
login(p) ==
    /\ Free(p)
    /\ \E email \in Emails, password \in Passwords :
         LET req == [op |-> "login", email |-> email, password |-> password]
             uid == get_user_by_email(email)
         IN  IF InvalidCredentials(uid, password)
             THEN Reply(p, req, HTTPException(401, "Invalid credentials"))
             ELSE /\ nextToken + SessionsInFlight < MaxSessions
                  /\ Goto(p, "login_created_at", req, [NoLocals EXCEPT !.found = uid])
    /\ UNCHANGED <<users, sessions, meds, clock, ticks, nextToken, nextReset, nextMed, consumed>>

\* line 156: "created_at": utc_now()
login_created_at(p) ==
    /\ proc[p].pc = "login_created_at"
    /\ Goto(p, "login_insert_session", proc[p].req, [proc[p].loc EXCEPT !.created_at = utc_now])
    /\ UNCHANGED <<users, sessions, meds, clock, ticks, nextToken, nextReset, nextMed, consumed>>

\* lines 153-159: "expires_at": utc_now() + 7 days, insert, answer
login_insert_session(p) ==
    /\ proc[p].pc = "login_insert_session"
    /\ nextToken' = nextToken + 1
    /\ sessions' = InsertSession(
          NewSession(proc[p].loc.found, nextToken + 1, proc[p].loc.created_at, utc_now))
    /\ Reply(p, proc[p].req, TokenOut(nextToken + 1, users[proc[p].loc.found]))
    /\ UNCHANGED <<users, meds, clock, ticks, nextReset, nextMed, consumed>>

\* DeleteSessionByToken gone wrong: every session of the token's user is removed
DeleteSessionsOfUser(token) ==
    {s \in sessions : \A t \in FindSession(token) : s.user_id # t.user_id}

\* line 167: db["session"].delete_one({"token": token}) removes the first match
DeleteSessionByToken(token) ==
    IF FindSession(token) = {} THEN sessions
    ELSE sessions \ {CHOOSE s \in FindSession(token) : TRUE}

\* POST /auth/logout
logout(p) ==
    /\ Free(p)
    /\ \E token \in BearerTokens :
         /\ sessions' = (IF token # 0 THEN DeleteSessionByToken(token) ELSE sessions)
         /\ Reply(p, [op |-> "logout", token |-> token], [status |-> 200, detail |-> ""])
    /\ UNCHANGED <<users, meds, clock, ticks, nextToken, nextReset, nextMed, consumed>>

\* GET /me
me(p) ==
    /\ \E token \in BearerTokens :
         LET req == [op |-> "me", token |-> token]
         IN  /\ Free(p)
             /\ sessions' = AuthSessions(token)
             /\ IF AuthDetail(token) # ""
                THEN Reply(p, req, HTTPException(401, AuthDetail(token)))
                ELSE Reply(p, req, [status |-> 200, detail |-> "", user |-> AuthUser(token)])
    /\ UNCHANGED <<users, meds, clock, ticks, nextToken, nextReset, nextMed, consumed>>

\* PUT /me/settings, up to the test for an empty update
update_settings(p) ==
    /\ \E token \in BearerTokens, settings \in SettingsInputs :
         LET req == [op |-> "update_settings", token |-> token, settings |-> settings]
         IN  /\ Free(p)
             /\ sessions' = AuthSessions(token)
             /\ IF AuthDetail(token) # ""
                THEN Reply(p, req, HTTPException(401, AuthDetail(token)))
                ELSE IF ~settings.given
                THEN Reply(p, req, [status |-> 200, detail |-> "", user |-> AuthUser(token)])
                ELSE Goto(p, "settings_update", req, [NoLocals EXCEPT !.user = AuthUser(token)])
    /\ UNCHANGED <<users, meds, clock, ticks, nextToken, nextReset, nextMed, consumed>>

\* lines 207-208: update_one({"_id": ...}, {"$set": updates}); return {**user, **updates}
settings_update(p) ==
    /\ proc[p].pc = "settings_update"
    /\ LET uid == proc[p].loc.user._id
           val == proc[p].req.settings.notifications_enabled
       IN  /\ users' = [users EXCEPT ![uid].notifications_enabled = val]
           /\ Reply(p, proc[p].req,
                    [status |-> 200, detail |-> "",
                     user |-> [proc[p].loc.user EXCEPT !.notifications_enabled = val]])
    /\ UNCHANGED <<sessions, meds, clock, ticks, nextToken, nextReset, nextMed, consumed>>

-----------------------------------------------------------------------------
(* Password reset *)

ResetsInFlight == Cardinality({q \in Procs : proc[q].pc = "forgot_update"})

\* POST /auth/forgot, up to the lookup
forgot(p) ==
    /\ Free(p)
    /\ \E email \in Emails :
         LET req == [op |-> "forgot", email |-> email]
             uid == get_user_by_email(email)
         IN  IF uid = 0
             THEN Reply(p, req, [status |-> 200, detail |-> "", reset_token |-> None])
             ELSE /\ nextReset + ResetsInFlight < MaxResetTokens
                  /\ Goto(p, "forgot_update", req, [NoLocals EXCEPT !.found = uid])
    /\ UNCHANGED <<users, sessions, meds, clock, ticks, nextToken, nextReset, nextMed, consumed>>

\* ForgotUpdate gone wrong: an outstanding reset token is kept, not overwritten
ForgotUpdateKeepOutstanding(user, reset_token, now) ==
    IF user.reset_token # None THEN user
    ELSE [user EXCEPT !.reset_token = reset_token, !.reset_token_expires = now + RESET_TTL]

\* line 179: the fields forgot sets on the user document
ForgotUpdate(user, reset_token, now) ==
    [user EXCEPT !.reset_token = reset_token, !.reset_token_expires = now + RESET_TTL]

\* lines 178-181
forgot_update(p) ==
    /\ proc[p].pc = "forgot_update"
    /\ nextReset' = nextReset + 1
    /\ users' = [users EXCEPT ![proc[p].loc.found] = ForgotUpdate(@, nextReset + 1, utc_now)]
    /\ Reply(p, proc[p].req, [status |-> 200, detail |-> "", reset_token |-> nextReset + 1])
    /\ UNCHANGED <<sessions, meds, clock, ticks, nextToken, nextMed, consumed>>

\* line 188: the test reset rejects a request with, on the _id get_user_by_email found
ResetRejected(uid, reset_token, now) ==
    \/ uid = 0
    \/ users[uid].reset_token # reset_token
    \/ users[uid].reset_token_expires < now

\* POST /auth/reset, up to the token check
reset(p) ==
    /\ Free(p)
    /\ \E email \in Emails, reset_token \in ResetTokenInputs, new_password \in Passwords :
         LET req == [op |-> "reset", email |-> email, reset_token |-> reset_token,
                     new_password |-> new_password]
             uid == get_user_by_email(email)
         IN  IF ResetRejected(uid, reset_token, utc_now)
             THEN Reply(p, req, HTTPException(400, "Invalid or expired token"))
             ELSE Goto(p, "reset_update", req, [NoLocals EXCEPT !.found = uid])
    /\ UNCHANGED <<users, sessions, meds, clock, ticks, nextToken, nextReset, nextMed, consumed>>

\* ResetUpdate gone wrong: the update without the new password_hash
ResetUpdateKeepPassword(user, new_password) ==
    [user EXCEPT !.reset_token = None, !.reset_token_expires = None]

\* ResetUpdate gone wrong: the update without the $unset
ResetUpdateKeepToken(user, new_password) ==
    [user EXCEPT !.password_hash = hash_password(new_password)]

\* line 190: $set password_hash, $unset reset_token and reset_token_expires
ResetUpdate(user, new_password) ==
    [user EXCEPT !.password_hash = hash_password(new_password),
                 !.reset_token = None, !.reset_token_expires = None]

\* lines 190-191
reset_update(p) ==
    /\ proc[p].pc = "reset_update"
    /\ users' = [users EXCEPT ![proc[p].loc.found] = ResetUpdate(@, proc[p].req.new_password)]
    /\ consumed' = consumed \cup {<<proc[p].loc.found, proc[p].req.reset_token>>}
    /\ Reply(p, proc[p].req, [status |-> 200, detail |-> ""])
    /\ UNCHANGED <<sessions, meds, clock, ticks, nextToken, nextReset, nextMed>>

-----------------------------------------------------------------------------
(* Medications *)

MedicationOut(m) ==
    [id |-> m._id, name |-> m.name, dosage |-> m.dosage, time_12h |-> m.time_12h,
     frequency |-> m.frequency, notes |-> m.notes,
     last_taken_at |-> m.last_taken_at, snooze_until_utc |-> m.snooze_until_utc]

\* .sort("created_at", 1): the documents in the order of their insertion (the model
\* keeps no created_at or updated_at on a medication: no handler reads them back)
RECURSIVE SortByCreatedAt(_)
SortByCreatedAt(ms) ==
    IF ms = {} THEN <<>>
    ELSE LET first == CHOOSE m \in ms : \A o \in ms : m._id <= o._id
         IN  <<MedicationOut(first)>> \o SortByCreatedAt(ms \ {first})

\* line 215: db["medication"].find({"user_id": user["_id"]})
MedsOf(user_id) == {m \in meds : m.user_id = user_id}

\* GET /medications, up to the query
list_meds(p) ==
    /\ \E token \in BearerTokens :
         get_current_user(p, [op |-> "list_meds", token |-> token], "list_find")
    /\ UNCHANGED <<users, meds, clock, ticks, nextToken, nextReset, nextMed, consumed>>

\* lines 215-228
list_find(p) ==
    /\ proc[p].pc = "list_find"
    /\ Reply(p, proc[p].req,
             [status |-> 200, detail |-> "",
              meds |-> SortByCreatedAt(MedsOf(proc[p].loc.user._id))])
    /\ UNCHANGED <<users, sessions, meds, clock, ticks, nextToken, nextReset, nextMed, consumed>>

\* POST /medications, up to the insert
create_med(p) ==
    /\ nextMed + Cardinality({q \in Procs : proc[q].pc = "create_insert"}) < MaxMeds
    /\ \E token \in BearerTokens, med \in MedicationInputs :
         get_current_user(p, [op |-> "create_med", token |-> token, med |-> med], "create_insert")
    /\ UNCHANGED <<users, meds, clock, ticks, nextToken, nextReset, nextMed, consumed>>

\* lines 234-243: the document create_med inserts
MedDoc(_id, user_id, med, now) ==
    [_id |-> _id, user_id |-> user_id, name |-> med.name, dosage |-> med.dosage,
     time_12h |-> Upper(med.time_12h), frequency |-> med.frequency, notes |-> med.notes,
     last_taken_at |-> None, snooze_until_utc |-> None]

\* lines 234-254
create_insert(p) ==
    /\ proc[p].pc = "create_insert"
    /\ nextMed' = nextMed + 1
    /\ LET doc == MedDoc(nextMed + 1, proc[p].loc.user._id, proc[p].req.med, utc_now)
       IN  /\ meds' = meds \cup {doc}
           /\ Reply(p, proc[p].req,
                    [status |-> 200, detail |-> "",
                     med |-> [MedicationOut(doc) EXCEPT !.last_taken_at = None,
                                                        !.snooze_until_utc = None]])
    /\ UNCHANGED <<users, sessions, clock, ticks, nextToken, nextReset, consumed>>

\* the find_one of update_med, mark_taken and snooze: 404, or on to the write at `label`
FindOwned(p, label) ==
    LET found == FindMed(proc[p].req.med_id, proc[p].loc.user._id)
    IN  IF found = {}
        THEN Reply(p, proc[p].req, HTTPException(404, "Not found"))
        ELSE Goto(p, label, proc[p].req,
                  [proc[p].loc EXCEPT !.found = CHOOSE m \in found : TRUE])

\* PUT /medications/{med_id}, up to the lookup
update_med(p) ==
    /\ \E token \in BearerTokens, med_id \in MedIds, med \in MedicationInputs :
         get_current_user(p, [op |-> "update_med", token |-> token, med_id |-> med_id,
                              med |-> med], "update_find")
    /\ UNCHANGED <<users, meds, clock, ticks, nextToken, nextReset, nextMed, consumed>>

\* lines 260-262
update_find(p) ==
    /\ proc[p].pc = "update_find"
    /\ FindOwned(p, "update_write")
    /\ UNCHANGED <<users, sessions, meds, clock, ticks, nextToken, nextReset, nextMed, consumed>>

\* MedUpdates gone wrong: the document is replaced by a fresh one built from the payload
MedUpdatesReplace(m, med, now) == MedDoc(m._id, m.user_id, med, now)

\* lines 263-270: the fields update_med sets
MedUpdates(m, med, now) ==
    [m EXCEPT !.name = med.name, !.dosage = med.dosage,
              !.time_12h = Upper(med.time_12h), !.frequency = med.frequency,
              !.notes = med.notes]

\* lines 263-282: update_one({"_id": m["_id"]}, {"$set": updates}) changes the stored
\* document of that _id, if there still is one; the answer is built from the document
\* read earlier
update_write(p) ==
    /\ proc[p].pc = "update_write"
    /\ LET m == proc[p].loc.found
       IN  /\ meds' = {IF d._id = m._id THEN MedUpdates(d, proc[p].req.med, utc_now) ELSE d :
                         d \in meds}
           /\ Reply(p, proc[p].req,
                    [status |-> 200, detail |-> "",
                     med |-> MedicationOut(MedUpdates(m, proc[p].req.med, utc_now))])
    /\ UNCHANGED <<users, sessions, clock, ticks, nextToken, nextReset, nextMed, consumed>>

\* DELETE /medications/{med_id}, up to the delete
delete_med(p) ==
    /\ \E token \in BearerTokens, med_id \in MedIds :
         get_current_user(p, [op |-> "delete_med", token |-> token, med_id |-> med_id],
                          "delete_one")
    /\ UNCHANGED <<users, meds, clock, ticks, nextToken, nextReset, nextMed, consumed>>

\* lines 288-289: delete_one({"_id": med_id, "user_id": user["_id"]})
delete_one(p) ==
    /\ proc[p].pc = "delete_one"
    /\ meds' = meds \ FindMed(proc[p].req.med_id, proc[p].loc.user._id)
    /\ Reply(p, proc[p].req, [status |-> 200, detail |-> ""])
    /\ UNCHANGED <<users, sessions, clock, ticks, nextToken, nextReset, nextMed, consumed>>

\* POST /medications/{med_id}/taken, up to the lookup
mark_taken(p) ==
    /\ \E token \in BearerTokens, med_id \in MedIds :
         get_current_user(p, [op |-> "mark_taken", token |-> token, med_id |-> med_id],
                          "taken_find")
    /\ UNCHANGED <<users, meds, clock, ticks, nextToken, nextReset, nextMed, consumed>>

\* lines 295-297
taken_find(p) ==
    /\ proc[p].pc = "taken_find"
    /\ FindOwned(p, "taken_write")
    /\ UNCHANGED <<users, sessions, meds, clock, ticks, nextToken, nextReset, nextMed, consumed>>

\* TakenUpdate gone wrong: the update without "snooze_until_utc": None
TakenUpdateKeepSnooze(m, now) == [m EXCEPT !.last_taken_at = now]

\* line 298: the fields mark_taken sets
TakenUpdate(m, now) ==
    [m EXCEPT !.last_taken_at = now, !.snooze_until_utc = None]

\* lines 298-299: update_one by _id, no document written when none has that _id
taken_write(p) ==
    /\ proc[p].pc = "taken_write"
    /\ meds' = {IF d._id = proc[p].loc.found._id THEN TakenUpdate(d, utc_now) ELSE d :
                  d \in meds}
    /\ Reply(p, proc[p].req, [status |-> 200, detail |-> ""])
    /\ UNCHANGED <<users, sessions, clock, ticks, nextToken, nextReset, nextMed, consumed>>

\* POST /medications/{med_id}/snooze, up to the lookup
snooze(p) ==
    /\ \E token \in BearerTokens, med_id \in MedIds :
         get_current_user(p, [op |-> "snooze", token |-> token, med_id |-> med_id],
                          "snooze_find")
    /\ UNCHANGED <<users, meds, clock, ticks, nextToken, nextReset, nextMed, consumed>>

\* lines 305-307
snooze_find(p) ==
    /\ proc[p].pc = "snooze_find"
    /\ FindOwned(p, "snooze_write")
    /\ UNCHANGED <<users, sessions, meds, clock, ticks, nextToken, nextReset, nextMed, consumed>>

\* SnoozeUpdate gone wrong: the document is written back without its last_taken_at
SnoozeUpdateDropsTaken(m, now) ==
    [m EXCEPT !.last_taken_at = None, !.snooze_until_utc = now + SNOOZE_DELTA]

\* SnoozeUpdate gone wrong: the update also stamps last_taken_at, as mark_taken does
SnoozeUpdateStampsTaken(m, now) ==
    [m EXCEPT !.last_taken_at = now, !.snooze_until_utc = now + SNOOZE_DELTA]

\* line 308: the fields snooze sets
SnoozeUpdate(m, now) ==
    [m EXCEPT !.snooze_until_utc = now + SNOOZE_DELTA]

\* lines 308-309: update_one by _id, no document written when none has that _id
snooze_write(p) ==
    /\ proc[p].pc = "snooze_write"
    /\ meds' = {IF d._id = proc[p].loc.found._id THEN SnoozeUpdate(d, utc_now) ELSE d :
                  d \in meds}
    /\ Reply(p, proc[p].req,
             [status |-> 200, detail |-> "", snooze_until_utc |-> utc_now + SNOOZE_DELTA])
    /\ UNCHANGED <<users, sessions, clock, ticks, nextToken, nextReset, nextMed, consumed>>

-----------------------------------------------------------------------------
(* Specifications *)

SessionStep(p) ==
    \/ signup(p) \/ signup_insert_user(p) \/ signup_created_at(p) \/ signup_insert_session(p)
    \/ login(p) \/ login_created_at(p) \/ login_insert_session(p)
    \/ logout(p)
    \/ me(p)

NextSession == (\E d \in {1, SESSION_TTL} : Tick(d)) \/ SessionStep("r1")

SpecSession == Init /\ [][NextSession]_vars

\* the store after signup("Alice", "a@x.com", "pw1") has completed at time 0
InitSignedUp ==
    /\ users = <<UserDoc([name |-> "Alice", email |-> "a@x.com", password |-> "pw1"])>>
    /\ sessions = {NewSession(1, 1, 0, 0)}
    /\ meds = {}
    /\ clock = 0
    /\ ticks = 0
    /\ nextToken = 1
    /\ nextReset = 0
    /\ nextMed = 0
    /\ consumed = {}
    /\ proc = [p \in Procs |-> IdleProc]

ResetStep(p) ==
    \/ forgot(p) \/ forgot_update(p)
    \/ reset(p) \/ reset_update(p)
    \/ login(p) \/ login_created_at(p) \/ login_insert_session(p)
    \/ me(p)

NextPasswordReset == (\E d \in {1, RESET_TTL} : Tick(d)) \/ ResetStep("r1")

SpecReset == InitSignedUp /\ [][NextPasswordReset]_vars

\* the steps of forgot and reset
ResetRaceStep(p) ==
    \/ forgot(p) \/ forgot_update(p)
    \/ reset(p) \/ reset_update(p)

\* two password-reset requests in flight at once
NextResetRace == \E p \in Procs : ResetRaceStep(p)

SpecResetRace == InitSignedUp /\ [][NextResetRace]_vars

\* the store after signup("Alice", "a@x.com", "pw1") and signup("Alice", "b@x.com", "pw2")
\* have completed at time 0
InitTwoUsers ==
    /\ users = <<UserDoc([name |-> "Alice", email |-> "a@x.com", password |-> "pw1"]),
                 UserDoc([name |-> "Alice", email |-> "b@x.com", password |-> "pw2"])>>
    /\ sessions = {NewSession(1, 1, 0, 0), NewSession(2, 2, 0, 0)}
    /\ meds = {}
    /\ clock = 0
    /\ ticks = 0
    /\ nextToken = 2
    /\ nextReset = 0
    /\ nextMed = 0
    /\ consumed = {}
    /\ proc = [p \in Procs |-> IdleProc]

MedStep(p) ==
    \/ list_meds(p) \/ list_find(p)
    \/ create_med(p) \/ create_insert(p)
    \/ update_med(p) \/ update_find(p) \/ update_write(p)
    \/ delete_med(p) \/ delete_one(p)
    \/ mark_taken(p) \/ taken_find(p) \/ taken_write(p)
    \/ snooze(p) \/ snooze_find(p) \/ snooze_write(p)

\* every medication route, one request at a time; the clock stands still: it matters
\* only to the times mark_taken and snooze store, which the races below let pass
NextMed == MedStep("r1")

SpecMed == InitTwoUsers /\ [][NextMed]_vars

\* two signup requests in flight at once
RaceStep(p) ==
    \/ signup(p) \/ signup_insert_user(p) \/ signup_created_at(p) \/ signup_insert_session(p)

NextSignupRace == \E p \in Procs : RaceStep(p)

SpecSignupRace == Init /\ [][NextSignupRace]_vars

\* the store after the two signups and, by the first user, create_med of the daily
\* Aspirin at time 0
InitOneMed ==
    /\ users = <<UserDoc([name |-> "Alice", email |-> "a@x.com", password |-> "pw1"]),
                 UserDoc([name |-> "Alice", email |-> "b@x.com", password |-> "pw2"])>>
    /\ sessions = {NewSession(1, 1, 0, 0), NewSession(2, 2, 0, 0)}
    /\ meds = {MedDoc(1, 1, [name |-> "Aspirin", dosage |-> "1 tablet",
                             time_12h |-> <<"8", ":", "0", "5", " ", "p", "m">>,
                             frequency |-> "daily", notes |-> NoNotes], 0)}
    /\ clock = 0
    /\ ticks = 0
    /\ nextToken = 2
    /\ nextReset = 0
    /\ nextMed = 1
    /\ consumed = {}
    /\ proc = [p \in Procs |-> IdleProc]

\* the steps of update_med
UpdateStep(p) == update_med(p) \/ update_find(p) \/ update_write(p)

\* the steps of mark_taken and snooze
TakenSnoozeStep(p) ==
    \/ mark_taken(p) \/ taken_find(p) \/ taken_write(p)
    \/ snooze(p) \/ snooze_find(p) \/ snooze_write(p)

\* the steps of delete_med
DeleteStep(p) == delete_med(p) \/ delete_one(p)

\* an update_med in flight together with a mark_taken or a snooze
NextUpdateRace == Tick(SNOOZE_DELTA) \/ UpdateStep("r1") \/ TakenSnoozeStep("r2")

SpecUpdateRace == InitOneMed /\ [][NextUpdateRace]_vars

\* a mark_taken or snooze in flight together with another one or with a delete_med
NextTakenRace ==
    Tick(SNOOZE_DELTA) \/ TakenSnoozeStep("r1") \/ TakenSnoozeStep("r2") \/ DeleteStep("r2")

SpecTakenRace == InitOneMed /\ [][NextTakenRace]_vars

\* the whole service: every route, any number of requests in flight; the
\* specifications above are this one restricted to the routes a property is about
Next ==
    \/ \E d \in {1, SNOOZE_DELTA, RESET_TTL, SESSION_TTL} : Tick(d)
    \/ \E p \in Procs : SessionStep(p) \/ ResetStep(p) \/ MedStep(p)
                         \/ update_settings(p) \/ settings_update(p)

Spec == Init /\ [][Next]_vars

-----------------------------------------------------------------------------
(* Steps, as seen from a pair of states *)

\* request slot p answers a request of route `op` in this step
Answers(p, op) ==
    /\ proc'[p] # proc[p]
    /\ proc'[p].pc = "done"
    /\ proc'[p].req.op = op

\* request slot p takes the step at position `label`
StepAt(p, label) == proc[p].pc = label /\ proc'[p] # proc[p]

Unauthenticated(resp) == resp.status = 401

NotFound(resp) == resp = [status |-> 404, detail |-> "Not found"]

InvalidOrExpiredResetToken(resp) == resp = [status |-> 400, detail |-> "Invalid or expired token"]

-----------------------------------------------------------------------------
(* C1: a validate call made at a time now >= expires_at, the instant            *)
(* now = expires_at included, is rejected as unauthenticated and leaves no      *)
(* session with that token in the session collection.                           *)
C1_ExpiredSessionRejected ==
    [][\A p \in Procs : \A s \in sessions :
         (Free(p) /\ Answers(p, "me") /\ proc'[p].req.token = s.token
            /\ utc_now >= s.expires_at)
         => /\ Unauthenticated(proc'[p].resp)
            /\ \A t \in sessions' : t.token # s.token]_vars

-----------------------------------------------------------------------------
(* C2: a request of a user who does not own medication M never changes M;      *)
(* its update, markTaken and snooze on M's id end in NotFound, and its list     *)
(* does not contain M.                                                          *)
C2_OwnershipIsolation ==
    [][\A p \in Procs : \A m \in meds :
         (proc'[p] # proc[p] /\ proc[p].loc.user._id # m.user_id)
         => /\ m \in meds'
            /\ (/\ proc[p].pc \in {"update_find", "taken_find", "snooze_find"}
                /\ proc[p].req.med_id = m._id)
               => (proc'[p].pc = "done" /\ NotFound(proc'[p].resp))
            /\ (proc[p].pc = "list_find")
               => \A i \in 1..Len(proc'[p].resp.meds) : proc'[p].resp.meds[i].id # m._id]_vars

\* user B's snooze on a medication of user A has been answered NotFound
C2_Witness ==
    \E p \in Procs : \E m \in meds : \E s \in sessions :
        /\ proc[p].pc = "done"
        /\ proc[p].req.op = "snooze"
        /\ proc[p].req.med_id = m._id
        /\ proc[p].req.token = s.token
        /\ s.user_id # m.user_id
        /\ NotFound(proc[p].resp)

-----------------------------------------------------------------------------
(* C3: completeReset passes its check exactly when the email is a user's, the   *)
(* stored reset token equals the one given and now < reset_token_expires; in    *)
(* every other case, now = expiry included, it ends in                          *)
(* InvalidOrExpiredResetToken and changes no user.                              *)
C3_ResetIffValid ==
    [][\A p \in Procs :
         (Free(p) /\ proc'[p] # proc[p] /\ proc'[p].req.op = "reset")
         => LET uid == get_user_by_email(proc'[p].req.email)
                valid == /\ uid # 0
                         /\ users[uid].reset_token = proc'[p].req.reset_token
                         /\ utc_now < users[uid].reset_token_expires
            IN  IF valid
                THEN proc'[p].pc = "reset_update"
                ELSE /\ proc'[p].pc = "done"
                     /\ InvalidOrExpiredResetToken(proc'[p].resp)
                     /\ users' = users]_vars

-----------------------------------------------------------------------------
(* C4: a reset token is single-use: the reset that succeeds clears reset_token  *)
(* and reset_token_expires, every reset started later with the same token for   *)
(* that user ends in InvalidOrExpiredResetToken, and a reset passes its check   *)
(* only with the token the user currently stores.                               *)
C4_ResetTokenSingleUse ==
    [][\A p \in Procs :
         /\ StepAt(p, "reset_update")
            => /\ users'[proc[p].loc.found].reset_token = None
               /\ users'[proc[p].loc.found].reset_token_expires = None
         /\ (Free(p) /\ proc'[p] # proc[p] /\ proc'[p].req.op = "reset")
            => LET uid == get_user_by_email(proc'[p].req.email)
                   tok == proc'[p].req.reset_token
               IN  /\ <<uid, tok>> \in consumed
                      => (proc'[p].pc = "done" /\ InvalidOrExpiredResetToken(proc'[p].resp))
                   /\ proc'[p].pc = "reset_update"
                      => (users[uid].reset_token = tok /\ <<uid, tok>> \notin consumed)]_vars

\* a reset replaying a token a reset has already succeeded with has been rejected
C4_Witness ==
    \E p \in Procs :
        /\ proc[p].pc = "done"
        /\ proc[p].req.op = "reset"
        /\ <<get_user_by_email(proc[p].req.email), proc[p].req.reset_token>> \in consumed
        /\ InvalidOrExpiredResetToken(proc[p].resp)
        /\ users[get_user_by_email(proc[p].req.email)].reset_token = None

-----------------------------------------------------------------------------
(* C5: no two user documents hold the same email, also when signup requests     *)
(* with the same email interleave.                                              *)
C5_EmailUnique ==
    \A i, j \in 1..Len(users) : users[i].email = users[j].email => i = j

-----------------------------------------------------------------------------
(* C6: a markTaken that finds the owner's medication sets last_taken_at to the  *)
(* current time and leaves snooze_until_utc None, whatever the two fields held. *)
C6_MarkTakenClearsSnooze ==
    [][\A p \in Procs : \A m \in meds :
         (StepAt(p, "taken_write") /\ m._id = proc[p].loc.found._id)
         => /\ proc'[p].resp.status = 200
            /\ \E n \in meds' :
                 /\ n._id = m._id
                 /\ n.last_taken_at = utc_now
                 /\ n.snooze_until_utc = None
            /\ \A n \in meds' : n._id = m._id => n.snooze_until_utc = None]_vars

\* markTaken has succeeded on a medication that was taken before and whose snooze
\* window was still running
C6_Witness ==
    \E p \in Procs : \E m \in meds :
        /\ proc[p].pc = "done"
        /\ proc[p].req.op = "mark_taken"
        /\ proc[p].resp.status = 200
        /\ m._id = proc[p].loc.found._id
        /\ proc[p].loc.found.last_taken_at # None
        /\ proc[p].loc.found.snooze_until_utc # None
        /\ m.last_taken_at < proc[p].loc.found.snooze_until_utc
        /\ m.last_taken_at > proc[p].loc.found.last_taken_at
        /\ m.snooze_until_utc = None

-----------------------------------------------------------------------------
(* C7: a snooze that finds the owner's medication sets snooze_until_utc to      *)
(* now + 10 minutes and changes none of last_taken_at, name, dosage, time_12h,  *)
(* frequency, notes and user_id, whatever state the medication was in.          *)
C7_SnoozeSetsOnlySnooze ==
    [][\A p \in Procs : \A m \in meds :
         (StepAt(p, "snooze_write") /\ m._id = proc[p].loc.found._id)
         => /\ proc'[p].resp.status = 200
            /\ \E n \in meds' :
                 /\ n._id = m._id
                 /\ n.snooze_until_utc = utc_now + SNOOZE_DELTA
                 /\ n.last_taken_at = m.last_taken_at
                 /\ n.name = m.name
                 /\ n.dosage = m.dosage
                 /\ n.time_12h = m.time_12h
                 /\ n.frequency = m.frequency
                 /\ n.notes = m.notes
                 /\ n.user_id = m.user_id
            /\ Cardinality({n \in meds' : n._id = m._id}) = 1]_vars

\* snooze has succeeded on a medication in state Taken, which keeps its last_taken_at
C7_Witness ==
    \E p \in Procs : \E m \in meds :
        /\ proc[p].pc = "done"
        /\ proc[p].req.op = "snooze"
        /\ proc[p].resp.status = 200
        /\ m._id = proc[p].loc.found._id
        /\ proc[p].loc.found.last_taken_at # None
        /\ proc[p].loc.found.snooze_until_utc = None
        /\ m.last_taken_at = proc[p].loc.found.last_taken_at
        /\ m.snooze_until_utc = utc_now + SNOOZE_DELTA

-----------------------------------------------------------------------------
(* C8: while no password is reset, a login with the email and password of a     *)
(* user who signed up passes the credential check, the token it returns is the  *)
(* token of a session of that user, and validate accepts a token whose session  *)
(* exists and has now < expires_at, resolving it to the session's user.         *)
C8_LoginAfterSignup ==
    [][\A p \in Procs :
         /\ (Free(p) /\ proc'[p] # proc[p] /\ proc'[p].req.op = "login")
            => \A i \in 1..Len(users) :
                 (/\ users[i].email = proc'[p].req.email
                  /\ users[i].password_hash = hash_password(proc'[p].req.password))
                 => (proc'[p].pc = "login_created_at" /\ proc'[p].loc.found = i)
         /\ StepAt(p, "login_insert_session")
            => /\ proc'[p].resp.status = 200
               /\ \E s \in sessions' :
                    /\ s.token = proc'[p].resp.token
                    /\ s.user_id = proc[p].loc.found
                    /\ users[s.user_id].email = proc[p].req.email
         /\ (Free(p) /\ Answers(p, "me"))
            => \A s \in sessions :
                 (s.token = proc'[p].req.token /\ utc_now < s.expires_at)
                 => /\ proc'[p].resp.status = 200
                    /\ proc'[p].resp.user._id = s.user_id
                    /\ proc'[p].resp.user.email = users[s.user_id].email]_vars

\* validate has accepted the token of a session that a login added to the one the
\* user's signup had created
C8_Witness ==
    \E p \in Procs : \E s, t \in sessions :
        /\ proc[p].pc = "done"
        /\ proc[p].req.op = "me"
        /\ proc[p].resp.status = 200
        /\ s.token = proc[p].req.token
        /\ t.user_id = s.user_id
        /\ t.token < s.token
        /\ proc[p].resp.user._id = s.user_id

-----------------------------------------------------------------------------
(* C9: a successful login adds exactly one session, whose token no existing     *)
(* session has, and removes or changes no existing session, so the sessions of  *)
(* that user that were valid before it are valid after it.                      *)
C9_LoginKeepsSessions ==
    [][\A p \in Procs :
         /\ (proc'[p] # proc[p] /\ proc'[p].req.op = "login"
               /\ proc[p].pc # "login_insert_session")
            => sessions' = sessions
         /\ StepAt(p, "login_insert_session")
            => /\ sessions \subseteq sessions'
               /\ Cardinality(sessions' \ sessions) = 1
               /\ \A n \in sessions' \ sessions :
                    /\ n.token = proc'[p].resp.token
                    /\ \A s \in sessions : s.token # n.token]_vars

\* a login has returned T2 while the session of the signup token T1 of the same user
\* is still stored and neither has expired
C9_Witness ==
    \E p \in Procs : \E s, t \in sessions :
        /\ proc[p].pc = "done"
        /\ proc[p].req.op = "login"
        /\ proc[p].resp.status = 200
        /\ t.token = proc[p].resp.token
        /\ s.user_id = t.user_id
        /\ s.token # t.token
        /\ ~SessionExpired(s, utc_now)
        /\ ~SessionExpired(t, utc_now)
        /\ utc_now > 0

-----------------------------------------------------------------------------
(* C10: every stored session has expires_at = created_at + 7 days exactly.      *)
C10_ExpiryIsCreatedPlusTTL ==
    \A s \in sessions : s.expires_at = s.created_at + SESSION_TTL

-----------------------------------------------------------------------------
(* C11: a completeReset changes no session, so validate goes on accepting the   *)
(* sessions stored before it while now < expires_at; the reset that succeeds    *)
(* stores the digest of the new password, which is the digest of no other       *)
(* password, and login passes exactly with the password whose digest is stored. *)
C11_ResetKeepsSessions ==
    [][\A p \in Procs :
         /\ (proc'[p] # proc[p] /\ proc'[p].req.op = "reset") => sessions' = sessions
         /\ StepAt(p, "reset_update")
            => LET uid == proc[p].loc.found
               IN  /\ users'[uid].password_hash = hash_password(proc[p].req.new_password)
                   /\ \A old \in Passwords \ {proc[p].req.new_password} :
                        users'[uid].password_hash # hash_password(old)
         /\ (Free(p) /\ proc'[p] # proc[p] /\ proc'[p].req.op = "login")
            => LET uid == get_user_by_email(proc'[p].req.email)
               IN  IF uid # 0 /\ users[uid].password_hash = hash_password(proc'[p].req.password)
                   THEN proc'[p].pc = "login_created_at"
                   ELSE proc'[p].pc = "done" /\ Unauthenticated(proc'[p].resp)
         /\ (Free(p) /\ Answers(p, "me") /\ consumed # {})
            => \A s \in sessions :
                 (s.token = proc'[p].req.token /\ utc_now < s.expires_at)
                 => (proc'[p].resp.status = 200 /\ proc'[p].resp.user._id = s.user_id)]_vars

\* after a reset has changed the password of the user who signed up with "pw1",
\* validate has accepted the session that signup had created
C11_Witness ==
    \E p \in Procs : \E s \in sessions :
        /\ <<s.user_id, 1>> \in consumed
        /\ users[s.user_id].password_hash = hash_password("pw2")
        /\ s.created_at = 0
        /\ utc_now > 0
        /\ proc[p].pc = "done"
        /\ proc[p].req.op = "me"
        /\ proc[p].req.token = s.token
        /\ proc[p].resp.status = 200

-----------------------------------------------------------------------------
(* C12: requestReset for a known email stores the token it returns, a token     *)
(* other than the outstanding one, with expiry = now + 1 hour, and changes no   *)
(* password_hash, no other user and no session; a reset with a token other than *)
(* the stored one (a superseded T1) ends in InvalidOrExpiredResetToken, a reset *)
(* with the stored one (T2) before its expiry passes.                           *)
C12_ForgotOverwrites ==
    [][\A p \in Procs :
         /\ (proc'[p] # proc[p] /\ proc'[p].req.op = "forgot")
            => /\ sessions' = sessions
               /\ Len(users') = Len(users)
               /\ \A i \in 1..Len(users) : users'[i].password_hash = users[i].password_hash
         /\ (Free(p) /\ proc'[p] # proc[p] /\ proc'[p].req.op = "forgot")
            => users' = users
         /\ StepAt(p, "forgot_update")
            => LET uid == proc[p].loc.found
               IN  /\ proc'[p].resp.status = 200
                   /\ proc'[p].resp.reset_token # None
                   /\ proc'[p].resp.reset_token # users[uid].reset_token
                   /\ users'[uid].reset_token = proc'[p].resp.reset_token
                   /\ users'[uid].reset_token_expires = utc_now + RESET_TTL
                   /\ \A i \in 1..Len(users) : i # uid => users'[i] = users[i]
         /\ (Free(p) /\ proc'[p] # proc[p] /\ proc'[p].req.op = "reset")
            => LET uid == get_user_by_email(proc'[p].req.email)
                   tok == proc'[p].req.reset_token
               IN  /\ (uid # 0 /\ users[uid].reset_token # tok)
                      => (proc'[p].pc = "done" /\ InvalidOrExpiredResetToken(proc'[p].resp))
                   /\ (/\ uid # 0
                       /\ users[uid].reset_token = tok
                       /\ utc_now < users[uid].reset_token_expires)
                      => proc'[p].pc = "reset_update"]_vars

\* after two requestResets of a user, T1 = 1 and T2 = 2, a reset with the never used
\* T1 has been rejected while T2 is stored and not yet expired
C12_Witness ==
    \E p \in Procs :
        LET uid == get_user_by_email(proc[p].req.email)
        IN  /\ proc[p].pc = "done"
            /\ proc[p].req.op = "reset"
            /\ proc[p].req.reset_token = 1
            /\ InvalidOrExpiredResetToken(proc[p].resp)
            /\ uid # 0
            /\ <<uid, 1>> \notin consumed
            /\ users[uid].reset_token = 2
            /\ utc_now < users[uid].reset_token_expires

-----------------------------------------------------------------------------
(* C13: a login whose email is no user's and a login whose password digest      *)
(* differs from the stored one end in the same response, 401 "Invalid           *)
(* credentials", and a login that fails inserts no session and changes no user  *)
(* and no session.                                                              *)
C13_LoginFailsAlike ==
    [][\A p \in Procs :
         (Free(p) /\ proc'[p] # proc[p] /\ proc'[p].req.op = "login")
         => LET uid == get_user_by_email(proc'[p].req.email)
            IN  /\ (\/ uid = 0
                    \/ users[uid].password_hash # hash_password(proc'[p].req.password))
                   => /\ proc'[p].pc = "done"
                      /\ proc'[p].resp = [status |-> 401, detail |-> "Invalid credentials"]
                /\ proc'[p].pc = "done"
                   => /\ proc'[p].resp = [status |-> 401, detail |-> "Invalid credentials"]
                      /\ users' = users
                      /\ sessions' = sessions
                      /\ nextToken' = nextToken]_vars

\* a login with the email of a user and a password other than theirs has been rejected
C13_Witness ==
    \E p \in Procs : \E i \in 1..Len(users) :
        /\ proc[p].pc = "done"
        /\ proc[p].req.op = "login"
        /\ users[i].email = proc[p].req.email
        /\ users[i].password_hash # hash_password(proc[p].req.password)
        /\ proc[p].resp = [status |-> 401, detail |-> "Invalid credentials"]
        /\ sessions # {}

-----------------------------------------------------------------------------
(* C14: logout answers 200 whatever the token; it leaves no session with that   *)
(* token and removes or changes no session with another token, so a second      *)
(* logout with the token changes nothing; a token without a session never gets  *)
(* one again and validate rejects it.                                           *)
C14_LogoutIdempotent ==
    [][/\ \A p \in Procs :
            /\ (Free(p) /\ proc'[p] # proc[p] /\ proc'[p].req.op = "logout")
               => /\ proc'[p].pc = "done"
                  /\ proc'[p].resp = [status |-> 200, detail |-> ""]
                  /\ sessions' = {s \in sessions : s.token # proc'[p].req.token}
                  /\ users' = users
            /\ (Free(p) /\ Answers(p, "me") /\ FindSession(proc'[p].req.token) = {})
               => Unauthenticated(proc'[p].resp)
       /\ \A t \in 1..nextToken :
            (\A s \in sessions : s.token # t) => (\A s \in sessions' : s.token # t)]_vars

\* the only user has logged out one of their two sessions, the other is still stored
C14_Witness ==
    \E p \in Procs : \E s \in sessions :
        /\ Len(users) = 1
        /\ nextToken = 2
        /\ sessions = {s}
        /\ utc_now <= s.expires_at
        /\ utc_now < SESSION_TTL
        /\ proc[p].pc = "done"
        /\ proc[p].req.op = "logout"
        /\ proc[p].req.token \in 1..nextToken
        /\ proc[p].req.token # s.token
        /\ proc[p].resp.status = 200

-----------------------------------------------------------------------------
(* C15: a create or update whose frequency is not daily, alternate or weekly    *)
(* stores nothing, so every stored medication has one of the three frequencies. *)
C15_FrequencyValidated ==
    \A m \in meds : m.frequency \in {"daily", "alternate", "weekly"}

-----------------------------------------------------------------------------
(* C16: the write of a successful update gives the stored medication the name,  *)
(* dosage, time_12h, frequency and notes of the request and leaves its          *)
(* last_taken_at, snooze_until_utc and user_id as they are stored at that       *)
(* moment, whatever mark_taken or snooze wrote since update read the document;  *)
(* no other medication changes; an update of an id that does not exist or is    *)
(* not the caller's answers 404 and changes nothing.                            *)
C16_UpdateKeepsReminderState ==
    [][\A p \in Procs :
         /\ StepAt(p, "update_write")
            => LET id == proc[p].loc.found._id
                   med == proc[p].req.med
               IN  /\ proc'[p].pc = "done"
                   /\ proc'[p].resp.status = 200
                   /\ {d._id : d \in meds'} = {d._id : d \in meds}
                   /\ \A d \in meds : d._id # id => d \in meds'
                   /\ \A d \in meds : \A e \in meds' :
                        (d._id = id /\ e._id = id)
                        => /\ e.last_taken_at = d.last_taken_at
                           /\ e.snooze_until_utc = d.snooze_until_utc
                           /\ e.user_id = d.user_id
                           /\ e.name = med.name
                           /\ e.dosage = med.dosage
                           /\ e.time_12h = Upper(med.time_12h)
                           /\ e.frequency = med.frequency
                           /\ e.notes = med.notes
         /\ (StepAt(p, "update_find")
             /\ \A d \in meds : d._id # proc[p].req.med_id \/ d.user_id # proc[p].loc.user._id)
            => /\ proc'[p].pc = "done"
               /\ NotFound(proc'[p].resp)
         /\ (Answers(p, "update_med") /\ proc'[p].resp.status # 200)
            => meds' = meds]_vars

\* update_med read the medication before any mark_taken, a mark_taken and the read of a
\* snooze came before update_med's write, and the stored document has the new name and
\* the reminder state the other requests wrote
C16_Witness ==
    /\ proc["r1"].pc = "done"
    /\ proc["r1"].req.op = "update_med"
    /\ proc["r1"].resp.status = 200
    /\ proc["r1"].req.med.name = "Ibuprofen"
    /\ proc["r1"].loc.found.last_taken_at = None
    /\ proc["r2"].pc = "done"
    /\ proc["r2"].req.op = "snooze"
    /\ proc["r2"].resp.status = 200
    /\ proc["r2"].loc.found.name = "Aspirin"
    /\ proc["r2"].loc.found.last_taken_at # None
    /\ \E d \in meds :
         /\ d._id = proc["r1"].req.med_id
         /\ d.name = "Ibuprofen"
         /\ d.last_taken_at # None
         /\ d.snooze_until_utc # None

-----------------------------------------------------------------------------
(* C17: delete_med answers 200 and removes exactly the medications with the     *)
(* given id that the caller owns: every other medication stays as it is, so a   *)
(* delete of a missing or foreign id changes nothing; none that it would remove *)
(* is left, so a second delete changes nothing more; an unauthenticated delete  *)
(* changes nothing.                                                             *)
C17_DeleteOwnedOnly ==
    [][\A p \in Procs :
         /\ StepAt(p, "delete_one")
            => LET id == proc[p].req.med_id
                   uid == proc[p].loc.user._id
               IN  /\ proc'[p].pc = "done"
                   /\ proc'[p].resp = [status |-> 200, detail |-> ""]
                   /\ meds' = {m \in meds : ~(m._id = id /\ m.user_id = uid)}
                   /\ {m \in meds' : m._id = id /\ m.user_id = uid} = {}
                   /\ ((\A m \in meds : m._id # id \/ m.user_id # uid) => meds' = meds)
         /\ (Answers(p, "delete_med") /\ proc'[p].resp.status # 200)
            => meds' = meds]_vars

\* the owner has deleted their medication and no medication is left
C17_Witness ==
    \E p \in Procs :
        /\ proc[p].pc = "done"
        /\ proc[p].req.op = "delete_med"
        /\ proc[p].resp.status = 200
        /\ proc[p].loc.user._id = 1
        /\ proc[p].req.med_id = 1
        /\ meds = {}

-----------------------------------------------------------------------------
(* C18: with mark_taken and snooze requests on one medication in flight         *)
(* together, each write changes the stored medication as the whole request run  *)
(* alone at that moment would: mark_taken stores (now, none), snooze stores     *)
(* (the stored last_taken_at, now + 10 minutes), whatever the request read      *)
(* earlier, so the stored pair is the one of the requests run one after another *)
(* in the order of their writes: a stored snooze time is never earlier than     *)
(* 10 minutes after the stored last_taken_at. A write whose medication has been *)
(* deleted since the lookup stores nothing.                                     *)
C18_LastWriteWins ==
    [][/\ \A p \in Procs :
            /\ StepAt(p, "taken_write")
               => /\ {d._id : d \in meds'} = {d._id : d \in meds}
                  /\ \A d \in meds :
                       IF d._id = proc[p].loc.found._id
                       THEN [d EXCEPT !.last_taken_at = utc_now,
                                      !.snooze_until_utc = None] \in meds'
                       ELSE d \in meds'
            /\ StepAt(p, "snooze_write")
               => /\ {d._id : d \in meds'} = {d._id : d \in meds}
                  /\ \A d \in meds :
                       IF d._id = proc[p].loc.found._id
                       THEN [d EXCEPT !.snooze_until_utc = utc_now + SNOOZE_DELTA] \in meds'
                       ELSE d \in meds'
            /\ ((StepAt(p, "taken_write") \/ StepAt(p, "snooze_write"))
                /\ \A d \in meds : d._id # proc[p].loc.found._id)
               => meds' = meds
       /\ \A d \in meds' :
            (d.last_taken_at # None /\ d.snooze_until_utc # None)
            => d.snooze_until_utc >= d.last_taken_at + SNOOZE_DELTA]_vars

\* a mark_taken and a snooze both read the untouched medication before either wrote;
\* both have answered and the stored pair is the one of mark_taken, then snooze
C18_Witness ==
    /\ proc["r1"].pc = "done"
    /\ proc["r1"].req.op = "mark_taken"
    /\ proc["r1"].resp.status = 200
    /\ proc["r1"].loc.found.last_taken_at = None
    /\ proc["r1"].loc.found.snooze_until_utc = None
    /\ proc["r2"].pc = "done"
    /\ proc["r2"].req.op = "snooze"
    /\ proc["r2"].resp.status = 200
    /\ proc["r2"].loc.found.last_taken_at = None
    /\ proc["r2"].loc.found.snooze_until_utc = None
    /\ \E d \in meds :
         /\ d._id = proc["r1"].req.med_id
         /\ d._id = proc["r2"].req.med_id
         /\ d.last_taken_at # None
         /\ d.snooze_until_utc = utc_now + SNOOZE_DELTA

-----------------------------------------------------------------------------
(* C19: with reset requests in flight together, the password_hash is set at     *)
(* most once per issued reset token: no reset writes for a user and token that  *)
(* a reset has already written for.                                             *)
C19_SingleUseUnderConcurrency ==
    [][\A p \in Procs :
         StepAt(p, "reset_update")
         => <<proc[p].loc.found, proc[p].req.reset_token>> \notin consumed]_vars

-----------------------------------------------------------------------------
(* C20: the user_id of every stored session names a stored user, so no request  *)
(* is answered "User not found", and a request presenting a session at a time   *)
(* now >= expires_at is answered 401 and leaves no session with that token.     *)
C20_SessionsReferToUsers ==
    [][/\ \A s \in sessions' : s.user_id \in 1..Len(users')
       /\ \A p \in Procs :
            /\ proc'[p].resp.detail # "User not found"
            /\ \A s \in sessions :
                 (/\ Free(p)
                  /\ proc'[p] # proc[p]
                  /\ proc'[p].req.op \notin {"signup", "login", "logout", "forgot", "reset"}
                  /\ proc'[p].req.token = s.token
                  /\ s.user_id \in 1..Len(users)
                  /\ utc_now >= s.expires_at)
                 => /\ proc'[p].pc = "done"
                    /\ proc'[p].resp.status = 401
                    /\ sessions' = {t \in sessions : t._id # s._id}]_vars

====
